---- MODULE Spec2Model ----
(***************************************************************************)
(* Azure published storage of aptly (azure/public.go): the path cache of   *)
(* LinkFromPool, the listing used to fill it and to remove directories,    *)
(* and the lease-guarded copy/move used by RenameFile and SymLink.         *)
(*                                                                         *)
(* Strings are sequences of one-character strings, so that byte slicing    *)
(* (blob.Name[len(prefix):]) and path joining are computed as the code     *)
(* computes them.                                                          *)
(***************************************************************************)
EXTENDS FiniteSets, Integers, Sequences, TLC

\* ------------------------------------------------------------------------
\* Bounds of the model
\* ------------------------------------------------------------------------

\* largest number of blobs the store returns in one listing segment
MaxPage == 2

\* ------------------------------------------------------------------------
\* Strings and paths (path/filepath)
\* ------------------------------------------------------------------------

Empty == << >>
Slash == "/"

\* byte values of the characters used, for the store's lexical order
Code(c) ==
    CASE c = "." -> 46
      [] c = "/" -> 47
      [] c = "a" -> 97
      [] c = "b" -> 98
      [] c = "l" -> 108
      [] c = "p" -> 112
      [] c = "q" -> 113
      [] c = "t" -> 116
      [] OTHER   -> 122

RECURSIVE StrLess(_, _)
\* s < t in Go's string order (byte-wise)
StrLess(s, t) ==
    IF t = Empty THEN FALSE
    ELSE IF s = Empty THEN TRUE
    ELSE IF Head(s) # Head(t) THEN Code(Head(s)) < Code(Head(t))
    ELSE StrLess(Tail(s), Tail(t))

\* s[n:] in Go; the slice expression panics when n > len(s)
SliceFrom(s, n) == SubSeq(s, n + 1, Len(s))

HasPrefix(s, p) == Len(s) >= Len(p) /\ SubSeq(s, 1, Len(p)) = p

HasSlash(s) == \E i \in 1..Len(s) : s[i] = Slash

RECURSIVE SplitSlash(_, _)
\* the segments of s between slashes; cur is the segment being read
SplitSlash(s, cur) ==
    IF s = Empty THEN << cur >>
    ELSE IF Head(s) = Slash THEN << cur >> \o SplitSlash(Tail(s), Empty)
    ELSE SplitSlash(Tail(s), Append(cur, Head(s)))

RECURSIVE JoinSlash(_)
\* the segments joined by single slashes
JoinSlash(segs) ==
    IF segs = << >> THEN Empty
    ELSE IF Len(segs) = 1 THEN segs[1]
    ELSE segs[1] \o << Slash >> \o JoinSlash(Tail(segs))

\* filepath.Clean for paths without "." and ".." elements: repeated and
\* trailing slashes go, a rooted path stays rooted, the empty path is "."
Clean(path) ==
    LET segs   == SelectSeq(SplitSlash(path, Empty), LAMBDA g : g # Empty)
        rooted == path # Empty /\ Head(path) = Slash
        body   == JoinSlash(segs)
    IN  IF rooted THEN << Slash >> \o body
        ELSE IF body = Empty THEN << "." >>
        ELSE body

\* filepath.Join: empty elements are ignored, the rest is joined and cleaned;
\* all elements empty gives the empty string
Join(elems) ==
    LET parts == SelectSeq(elems, LAMBDA e : e # Empty)
    IN  IF parts = << >> THEN Empty ELSE Clean(JoinSlash(parts))

\* filepath.Base: the last element of the path
Base(path) ==
    LET segs == SelectSeq(SplitSlash(path, Empty), LAMBDA g : g # Empty)
    IN  IF path = Empty THEN << "." >>
        ELSE IF segs = << >> THEN << Slash >>
        ELSE segs[Len(segs)]

\* ------------------------------------------------------------------------
\* Contents and checksums
\* ------------------------------------------------------------------------

\* file contents, and the content of a blob whose copy has not finished
Contents == {"Contents", "Spam"}
Partial == "partial"

\* the MD5 digest of a content, as the bytes the store keeps (one byte here)
Digest(content) ==
    CASE content = "Contents" -> << 193 >>
      [] content = "Spam"     -> << 233 >>
      [] OTHER                -> << 0 >>

HexDigit(n) ==
    << "0", "1", "2", "3", "4", "5", "6", "7",
       "8", "9", "a", "b", "c", "d", "e", "f" >>[n + 1]

RECURSIVE Hex(_)
\* fmt.Sprintf("%x", bytes): two lowercase hex digits per byte
Hex(bytes) ==
    IF bytes = << >> THEN Empty
    ELSE << HexDigit(Head(bytes) \div 16), HexDigit(Head(bytes) % 16) >>
         \o Hex(Tail(bytes))

\* utils.ChecksumInfo.MD5 of a pool file: the hex digest of its content
SourceMD5(content) == Hex(Digest(content))

\* ------------------------------------------------------------------------
\* Inputs of the model
\* ------------------------------------------------------------------------

Nil == "nil"

\* root prefixes an instance is constructed with ("" and "l")
Prefixes == { Empty, << "l" >> }

\* relative paths passed to PutFile, Remove, RenameFile, SymLink, HardLink
RelPaths == { << "a" >>, << "t", "/", "a" >> }

\* directories passed to Filelist, RemoveDirs and, as publishedDirectory, to
\* LinkFromPool ("" and "t")
Dirs == { Empty, << "t" >> }

\* the package pool: local files and their contents
PoolFile(path) ==
    CASE path = << "/", "p", "/", "a" >> -> "Contents"
      [] path = << "/", "q", "/", "a" >> -> "Spam"
      [] OTHER                           -> Nil

SourcePaths ==
    { << "/", "p", "/", "a" >>, << "/", "q", "/", "a" >> }

\* keys that may hold a blob when the instance is constructed
InitKeys == { << "a" >>, << "t", "a" >>, << "t", "/", "a" >> }

\* ------------------------------------------------------------------------
\* State
\* ------------------------------------------------------------------------

VARIABLES
    prefix,      \* PublishedStorage.prefix
    pathCache,   \* PublishedStorage.pathCache: [nil, m: relative path -> md5]
    blobs,       \* the container: key -> [content, meta]
    leases,      \* keys under an active lease
    copies,      \* the store's pending copies: destination key -> content
    log,         \* the store calls of the last internalCopyOrMoveBlob
    last,        \* the last finished facade call and what it returned
    dead,        \* the process ended in a run-time panic
    calls        \* the LinkFromPool calls of concurrent callers, by caller

vars == << prefix, pathCache, blobs, leases, copies, log, last, dead, calls >>

\* blob metadata: a set of <<name, value>> pairs
NoMeta == {}

\* the link stored under another name than ReadLink looks up
SymLinkMetaOtherName(src) == { << "Symlink", src >> }

\* azblob.Metadata{"SymLink": src}
SymLinkMeta(src) == { << "SymLink", src >> }

\* a nil map, and the map made by make(map[string]string)
NilCache == [nil |-> TRUE, m |-> << >>]
MadeCache(m) == [nil |-> FALSE, m |-> m]

\* no pending copy
NoCopies == << >>

Blob(content, meta) == [content |-> content, meta |-> meta]

Exists(objs, key) == key \in DOMAIN objs

\* objs with key set to blob
Put(objs, key, blob) ==
    [k \in DOMAIN objs \cup {key} |-> IF k = key THEN blob ELSE objs[k]]

\* objs without the keys of gone
Drop(objs, gone) == [k \in DOMAIN objs \ gone |-> objs[k]]

\* the lease id the store hands out for a key, and no lease id
LeaseID(key) == << "lease", key >>
NoLease == << >>

\* a copy into key has not finished: the store refuses other writes to it
CopyPending(cp, key) == key \in DOMAIN cp

\* the record of a finished facade call
Call(op, a1, a2, res, puts, touched, out) ==
    [op |-> op, a1 |-> a1, a2 |-> a2, res |-> res, puts |-> puts,
     touched |-> touched, out |-> out]

NoCall == Call("none", Empty, Empty, "ok", 0, {}, << >>)

\* metadata passed to the copy: nil, or a map
NilMetadata == [nil |-> TRUE, m |-> NoMeta]
Metadata(m) == [nil |-> FALSE, m |-> m]

\* the callers that call LinkFromPool on the instance at the same time
Callers == { "A", "B" }

\* a caller that has not called: pc is where the call is, dir, src and
\* force its arguments, isNil, exists and destinationMD5 what it read of
\* the cache, err what PutFile returned, res what the call returned, and
\* overlapped whether the other caller's call was running during it;
\* puts counts the uploads the call issued
IdleCall ==
    [pc |-> "idle", dir |-> Empty, src |-> Empty, force |-> FALSE, isNil |-> FALSE,
     exists |-> FALSE, destinationMD5 |-> Empty, err |-> "none", res |-> "none",
     puts |-> 0, overlapped |-> FALSE]

\* NewPublishedStorage: the prefix is stored, the path cache is nil; the
\* container holds whatever was published before
Init ==
    /\ calls = [c \in Callers |-> IdleCall]
    /\ prefix \in Prefixes
    /\ pathCache = NilCache
    /\ \E keys \in SUBSET InitKeys : blobs \in [keys -> { Blob("Spam", NoMeta) }]
    /\ leases = {}
    /\ copies = NoCopies
    /\ log = << >>
    /\ last = NoCall
    /\ dead = FALSE

\* a call can be made: the process has not ended
Ready == ~dead

\* ------------------------------------------------------------------------
\* Listing (internalFilelist, Filelist)
\* ------------------------------------------------------------------------

RECURSIVE SortKeys(_)
\* the keys of S in the store's lexical order
SortKeys(S) ==
    IF S = {} THEN << >>
    ELSE LET least == CHOOSE k \in S : \A o \in S \ {k} : StrLess(k, o)
         IN  << least >> \o SortKeys(S \ {least})

\* ContainerURL.ListBlobsHierarchySegment(marker, delimiter, options): one
\* segment of the blobs whose name starts with options.Prefix and has no
\* delimiter after it (deeper names are reported as BlobPrefixes, not as
\* BlobItems); marker is the number of items already returned, and the
\* next marker is 0 when the listing is done
ListBlobsHierarchySegment(objs, marker, delimiter, optPrefix, size) ==
    LET names == { k \in DOMAIN objs :
                     /\ HasPrefix(k, optPrefix)
                     /\ ~ \E i \in (Len(optPrefix) + 1)..Len(k) : k[i] = delimiter }
        all   == SortKeys(names)
        upto  == IF marker + size < Len(all) THEN marker + size ELSE Len(all)
    IN  [items |-> SubSeq(all, marker + 1, upto),
         next  |-> IF upto < Len(all) THEN upto ELSE 0]

\* the prefix option internalFilelist passes to the store: the zero value
\* of azblob.ListBlobsSegmentOptions, whatever absPrefix is
ListOptionsPrefix(absPrefix) == Empty

RECURSIVE ListLoop(_, _, _, _, _, _, _)
\* the loop of internalFilelist from one marker on: page is the number of
\* the segment requested, failAt the segment whose request fails (0: none)
ListLoop(objs, absPrefix, marker, page, size, failAt, acc) ==
    IF page = failAt THEN [err |-> "list", paths |-> << >>, md5s |-> << >>, keys |-> {}]
    ELSE
      LET listBlob == ListBlobsHierarchySegment(objs, marker, Slash,
                                                ListOptionsPrefix(absPrefix), size)
          items    == listBlob.items
          short    == \E i \in 1..Len(items) : Len(items[i]) < Len(absPrefix)
          keys     == acc.keys \cup { items[i] : i \in 1..Len(items) }
          got      == [paths |-> acc.paths \o
                                 [i \in 1..Len(items) |->
                                    IF absPrefix = Empty THEN items[i]
                                    ELSE SliceFrom(items[i], Len(absPrefix))],
                       md5s  |-> acc.md5s \o
                                 [i \in 1..Len(items) |-> Hex(Digest(objs[items[i]].content))],
                       keys  |-> keys]
      IN  IF short THEN [err |-> "panic", paths |-> << >>, md5s |-> << >>, keys |-> keys]
          ELSE IF listBlob.next = 0
               THEN [err |-> "none", paths |-> got.paths, md5s |-> got.md5s, keys |-> got.keys]
          ELSE ListLoop(objs, absPrefix, listBlob.next, page + 1, size, failAt, got)

\* internalFilelist(prefix): paths and md5s, err "list" when a segment
\* request failed and "panic" when a name is shorter than the prefix sliced
\* off it; keys are the blobs the store reported
internalFilelist(objs, root, dir, size, failAt) ==
    LET joined    == Join(<< root, dir >>)
        absPrefix == IF joined # Empty THEN joined \o << Slash >> ELSE joined
    IN  ListLoop(objs, absPrefix, 0, 1, size, failAt,
                 [paths |-> << >>, md5s |-> << >>, keys |-> {}])

\* ------------------------------------------------------------------------
\* Store calls that change the container
\* ------------------------------------------------------------------------

\* a write to key is refused: a connectivity fault (~ok), a lease that the
\* call does not present, or a copy into key that has not finished
Refused(cp, ls, key, leaseId, ok) ==
    \/ ~ok
    \/ key \in ls /\ leaseId # LeaseID(key)
    \/ key \notin ls /\ leaseId # NoLease
    \/ CopyPending(cp, key)

\* BlobURL.Delete: fails on a blob that does not exist
DeleteBlob(objs, cp, ls, key, leaseId, ok) ==
    IF Exists(objs, key) /\ ~Refused(cp, ls, key, leaseId, ok)
    THEN [ok |-> TRUE, blobs |-> Drop(objs, {key})]
    ELSE [ok |-> FALSE, blobs |-> objs]

\* the key PutFile uploads to
PutKey(root, path) == Join(<< root, path >>)

\* PutFile(path, sourceFilename): opens the file and uploads it as the whole
\* blob at the joined key; puts counts the uploads issued
PutFile(objs, cp, ls, root, path, sourceFilename, ok) ==
    LET key == PutKey(root, path)
    IN  IF PoolFile(sourceFilename) = Nil
        THEN [err |-> "open", blobs |-> objs, puts |-> 0, touched |-> {}]
        ELSE IF Refused(cp, ls, key, NoLease, ok)
        THEN [err |-> "upload", blobs |-> objs, puts |-> 1, touched |-> {key}]
        ELSE [err |-> "none",
              blobs |-> Put(objs, key, Blob(PoolFile(sourceFilename), NoMeta)),
              puts |-> 1, touched |-> {key}]

\* the key Remove deletes: the path as passed
RemoveKey(root, path) == path

\* the key RemoveDirs deletes for a listed file name
RemoveDirsKey(root, path, filename) == Join(<< root, path, filename >>)

\* FileExists(path): a properties fetch at the joined key (no fault)
FileExists(objs, root, path) ==
    LET key == Join(<< root, path >>)
    IN  [exists |-> Exists(objs, key), err |-> "none", touched |-> {key}]

\* ReadLink(path): the SymLink metadata of the blob at the joined key, the
\* empty string when the blob carries none (no fault)
ReadLink(objs, root, path) ==
    LET key == Join(<< root, path >>)
    IN  IF ~Exists(objs, key)
        THEN [link |-> Empty, err |-> "status", touched |-> {key}]
        ELSE [link |-> IF \E m \in objs[key].meta : m[1] = "SymLink"
                       THEN (CHOOSE m \in objs[key].meta : m[1] = "SymLink")[2]
                       ELSE Empty,
              err |-> "none", touched |-> {key}]

\* ------------------------------------------------------------------------
\* Facade calls that are one store round each
\* ------------------------------------------------------------------------

PutFileAct ==
    /\ Ready
    /\ \E path \in RelPaths, src \in SourcePaths, ok \in BOOLEAN :
         LET r == PutFile(blobs, copies, leases, prefix, path, src, ok)
         IN  /\ blobs' = r.blobs
             /\ last' = Call("PutFile", path, src,
                             IF r.err = "none" THEN "ok" ELSE "error",
                             r.puts, r.touched, << >>)
    /\ UNCHANGED << calls, prefix, pathCache, leases, copies, log, dead >>

RemoveAct ==
    /\ Ready
    /\ \E path \in RelPaths, ok \in BOOLEAN :
         LET key == RemoveKey(prefix, path)
             r   == DeleteBlob(blobs, copies, leases, key, NoLease, ok)
         IN  /\ blobs' = r.blobs
             /\ last' = Call("Remove", path, Empty,
                             IF r.ok THEN "ok" ELSE "error", 0, {key}, << >>)
    /\ UNCHANGED << calls, prefix, pathCache, leases, copies, log, dead >>

FilelistAct ==
    /\ Ready
    /\ \E dir \in Dirs, size \in 1..MaxPage, failAt \in 0..MaxPage :
         LET r == internalFilelist(blobs, prefix, dir, size, failAt)
         IN  /\ dead' = (r.err = "panic")
             /\ last' = Call("Filelist", dir, Empty,
                             CASE r.err = "none" -> "ok"
                               [] r.err = "list" -> "error"
                               [] OTHER          -> "panic",
                             0, r.keys, r.paths)
    /\ UNCHANGED << calls, prefix, pathCache, blobs, leases, copies, log >>

RECURSIVE DeleteEach(_, _, _, _, _)
\* the delete loop of RemoveDirs over the listed keys; the deletes of the
\* keys in failing do not go through
DeleteEach(objs, cp, ls, keys, failing) ==
    IF keys = << >> THEN objs
    ELSE DeleteEach(DeleteBlob(objs, cp, ls, Head(keys), NoLease,
                               Head(keys) \notin failing).blobs,
                    cp, ls, Tail(keys), failing)

\* what RemoveDirs returns after the delete loop: the err of the listing,
\* which is nil there (the loop's err is a variable of its own)
RemoveDirsResult(anyDeleteFailed) == "ok"

\* the listing's error handed to the caller
RemoveDirsListErrorReturned(err) == "error"

\* what RemoveDirs returns when its listing failed: nil, not the error
RemoveDirsListError(err) == "ok"

\* the keys of the delete loop, one for each listed file name
RemoveDirsKeys(root, path, filelist) ==
    [i \in 1..Len(filelist) |-> RemoveDirsKey(root, path, filelist[i])]

\* RemoveDirs returning: fl is what the listing gave, keys the keys of the
\* delete loop, after the container the loop leaves
RemoveDirsReturn(path, fl, keys, after) ==
    /\ dead' = (fl.err = "panic")
    /\ blobs' = IF fl.err = "none" THEN after ELSE blobs
    /\ last' = Call("RemoveDirs", path, Empty,
                    CASE fl.err = "none" ->
                           RemoveDirsResult(\E i \in 1..Len(keys) :
                                              Exists(after, keys[i]) \/ ~Exists(blobs, keys[i]))
                      [] fl.err = "list" -> RemoveDirsListError(fl.err)
                      [] OTHER           -> "panic",
                    0,
                    fl.keys \cup (IF fl.err = "none"
                                  THEN { keys[i] : i \in 1..Len(keys) } ELSE {}),
                    << fl.err, \E i \in 1..Len(keys) :
                                 Exists(after, keys[i]) \/ ~Exists(blobs, keys[i]) >>)

\* the delete loop of RemoveDirs, with any of its deletes failing
RemoveDirsLoop(path, fl, keys) ==
    \E failing \in SUBSET { keys[i] : i \in 1..Len(keys) } :
        RemoveDirsReturn(path, fl, keys, DeleteEach(blobs, copies, leases, keys, failing))

\* RemoveDirs after its listing
RemoveDirsListed(path, fl) ==
    RemoveDirsLoop(path, fl, RemoveDirsKeys(prefix, path, fl.paths))

RemoveDirsAct ==
    /\ Ready
    /\ \E path \in Dirs, size \in 1..MaxPage, failAt \in 0..MaxPage :
         RemoveDirsListed(path, internalFilelist(blobs, prefix, path, size, failAt))
    /\ UNCHANGED << calls, prefix, pathCache, leases, copies, log >>

\* ------------------------------------------------------------------------
\* LinkFromPool and the path cache
\* ------------------------------------------------------------------------

\* the argument of the listing that fills the path cache
CacheListArg(relPath) == relPath

\* the map filled from the listing: pathCache[paths[i]] = md5s[i] in order
CacheOf(paths, md5s) ==
    [k \in { paths[i] : i \in 1..Len(paths) } |->
        md5s[CHOOSE i \in 1..Len(paths) :
               paths[i] = k /\ \A j \in 1..Len(paths) : paths[j] = k => j <= i]]

\* a decision that never takes the cached checksum for the file's
DecideNoHit(cache, relPath, sourceMD5, force) ==
    IF relPath \in DOMAIN cache /\ ~force /\ cache[relPath] # sourceMD5
    THEN "conflict" ELSE "write"

\* what LinkFromPool does once the cache is there: "hit" returns nil
\* without a write, "conflict" returns the error, "write" goes on to PutFile
Decide(cache, relPath, sourceMD5, force) ==
    IF relPath \in DOMAIN cache
    THEN IF cache[relPath] = sourceMD5 THEN "hit"
         ELSE IF ~force /\ cache[relPath] # sourceMD5 THEN "conflict"
         ELSE "write"
    ELSE "write"

\* the cache with the entry set whatever PutFile returned
CacheAfterPutAnyway(cache, relPath, sourceMD5, err) == Put(cache, relPath, sourceMD5)

\* the cache after PutFile returned err
CacheAfterPut(cache, relPath, sourceMD5, err) ==
    IF err = "none" THEN Put(cache, relPath, sourceMD5) ELSE cache

\* the listing that fills a nil cache; a cache that is there lists nothing
CacheListing(objs, root, cache, relPath, size, failAt) ==
    IF cache.nil
    THEN internalFilelist(objs, root, CacheListArg(relPath), size, failAt)
    ELSE [err |-> "none", paths |-> << >>, md5s |-> << >>, keys |-> {}]

\* LinkFromPool after PutFile returned put
LinkPut(fl, filled, relPath, sourceMD5, put) ==
    [res |-> IF put.err = "none" THEN "ok" ELSE "error",
     blobs |-> put.blobs,
     cache |-> MadeCache(CacheAfterPut(filled, relPath, sourceMD5, put.err)),
     puts |-> put.puts, touched |-> fl.keys \cup put.touched,
     relPath |-> relPath]

\* LinkFromPool from the lookup in the cache on, filled being the cache
LinkLookup(objs, cp, ls, root, filled, relPath, sourcePath, sourceMD5, force, fl, ok) ==
    CASE Decide(filled, relPath, sourceMD5, force) = "hit" ->
           [res |-> "ok", blobs |-> objs, cache |-> MadeCache(filled), puts |-> 0,
            touched |-> fl.keys, relPath |-> relPath]
      [] Decide(filled, relPath, sourceMD5, force) = "conflict" ->
           [res |-> "conflict", blobs |-> objs, cache |-> MadeCache(filled),
            puts |-> 0, touched |-> fl.keys, relPath |-> relPath]
      [] OTHER ->
           LinkPut(fl, filled, relPath, sourceMD5,
                   PutFile(objs, cp, ls, root, relPath, sourcePath, ok))

\* a cache made, empty, although the listing failed
CacheMadeOnListError(cache) == MadeCache(<< >>)

\* lines 140-142: the return on the listing's error comes before the make
\* of line 144, and leaves the cache as it was
CacheOnListError(cache) == cache

\* LinkFromPool after the listing of a nil cache returned fl
LinkListed(objs, cp, ls, root, cache, relPath, sourcePath, force, fl, ok) ==
    IF fl.err # "none"
    THEN [res |-> IF fl.err = "panic" THEN "panic" ELSE "error",
          blobs |-> objs, cache |-> CacheOnListError(cache), puts |-> 0,
          touched |-> fl.keys, relPath |-> relPath]
    ELSE LinkLookup(objs, cp, ls, root,
                    IF cache.nil THEN CacheOf(fl.paths, fl.md5s) ELSE cache.m,
                    relPath, sourcePath, SourceMD5(PoolFile(sourcePath)), force, fl, ok)

\* LinkFromPool for the relative path of the published file
LinkRelPath(objs, cp, ls, root, cache, relPath, sourcePath, force, size, failAt, ok) ==
    LinkListed(objs, cp, ls, root, cache, relPath, sourcePath, force,
               CacheListing(objs, root, cache, relPath, size, failAt), ok)

\* LinkFromPool(publishedDirectory, fileName, sourcePool, sourcePath,
\* sourceChecksums, force), with the listing's segment size and failing
\* segment and the upload's outcome as inputs
LinkFromPool(objs, cp, ls, root, cache, publishedDirectory, sourcePath, force, size, failAt, ok) ==
    LinkRelPath(objs, cp, ls, root, cache,
                Join(<< publishedDirectory, Base(sourcePath) >>),
                sourcePath, force, size, failAt, ok)

\* segment sizes and failing segments to try: one of each when the call
\* does not list
ListSizes(lists) == IF lists THEN 1..MaxPage ELSE {1}
ListFaults(lists) == IF lists THEN 0..MaxPage ELSE {0}

\* pool files handed to LinkFromPool: those that exist in the pool
LinkSources == { p \in SourcePaths : PoolFile(p) # Nil }

\* LinkFromPool returning r
LinkFromPoolReturn(dir, src, force, r) ==
    /\ blobs' = r.blobs
    /\ pathCache' = r.cache
    /\ dead' = (r.res = "panic")
    /\ last' = Call("LinkFromPool", dir, src, r.res, r.puts, r.touched, << force >>)

LinkFromPoolAct ==
    /\ Ready
    /\ \E dir \in Dirs, src \in LinkSources, force \in BOOLEAN,
          size \in ListSizes(pathCache.nil), failAt \in ListFaults(pathCache.nil),
          ok \in BOOLEAN :
         LinkFromPoolReturn(dir, src, force,
                            LinkFromPool(blobs, copies, leases, prefix, pathCache, dir,
                                         src, force, size, failAt, ok))
    /\ UNCHANGED << calls, prefix, leases, copies, log >>

Next ==
    \/ PutFileAct
    \/ RemoveAct
    \/ FilelistAct
    \/ RemoveDirsAct
    \/ LinkFromPoolAct

\* the facade without the copy/move calls
Spec == Init /\ [][Next]_vars

\* ------------------------------------------------------------------------
\* internalCopyOrMoveBlob, RenameFile, SymLink, HardLink
\* ------------------------------------------------------------------------

\* an entry of the log of store calls: the call, its key, the lease id it
\* presents, and whether it went through
Logged(call, key, lease, ok) == [call |-> call, key |-> key, lease |-> lease, ok |-> ok]

\* what the store answers during one call: whether each lease is granted,
\* how StartCopyFromURL answers, whether the delete, the properties fetch and
\* the renewals go through, and the copy status the fetch reports
AllGood == [dstLease |-> TRUE, srcLease |-> TRUE, start |-> "success", del |-> TRUE,
            props |-> "success", renewDst |-> TRUE, renewSrc |-> TRUE]

Answers ==
    { AllGood,
      [AllGood EXCEPT !.dstLease = FALSE],
      [AllGood EXCEPT !.srcLease = FALSE],
      [AllGood EXCEPT !.start = "error"],
      [AllGood EXCEPT !.del = FALSE],
      [AllGood EXCEPT !.start = "pending", !.props = "error"] }
    \cup { [AllGood EXCEPT !.start = "pending", !.props = p, !.renewDst = r[1],
                           !.renewSrc = r[2]] :
             p \in {"pending", "success", "failed"},
             r \in { << TRUE, TRUE >>, << FALSE, TRUE >>, << TRUE, FALSE >> } }

RECURSIVE Reverse(_)
\* deferred calls run last registered first
Reverse(seq) == IF seq = << >> THEN << >> ELSE Reverse(Tail(seq)) \o << Head(seq) >>

\* no BreakLease deferred
DeferNothing(key) == << >>

\* the BreakLease deferred once the lease on key is acquired
DeferBreak(key) == << key >>

\* BlobURL.AcquireLease with no proposed id: refused on a fault and on a key
\* that is under a lease already
AcquireLease(ls, key, ok) == ok /\ key \notin ls

\* the metadata of the destination of a copy: the map passed, or the
\* source's when none is passed
CopiedMeta(metadata, source) == IF metadata.nil THEN source.meta ELSE metadata.m

\* the lease id presented with the properties fetch on the destination
PropertiesLease(dstKey, srcKey) == LeaseID(srcKey)

\* where control goes when the pending branch ends with both leases
\* renewed: out of the if-chain to the return of line 279
AfterRenew(copyStatus) == "copyStatus"

\* the return of internalCopyOrMoveBlob: the deferred BreakLease calls run
\* and end the leases
Returned(res, objs, cp, ls, entries, defers) ==
    LET breaks == Reverse(defers)
    IN  [res    |-> res,
         blobs  |-> objs,
         copies |-> cp,
         leases |-> ls \ { breaks[i] : i \in 1..Len(breaks) },
         log    |-> entries \o
                    [i \in 1..Len(breaks) |->
                       Logged("BreakLease", breaks[i], NoLease, breaks[i] \in ls)]]

\* a delete of the source whatever the copy status is
DeletesSourceOnMove(copyStatus, move) == move

\* the branch that deletes the source: copy status success and move
DeletesSource(copyStatus, move) == copyStatus = "success" /\ move

\* lines 246-279, the body of the loop, entered once with the status
\* StartCopyFromURL returned
StatusLoop(copyStatus, objs, cp, ls, dstKey, srcKey, move, ans, entries, defers) ==
    IF DeletesSource(copyStatus, move)
    THEN LET d == DeleteBlob(objs, cp, ls, srcKey, LeaseID(srcKey), ans.del)
         IN  Returned(IF d.ok THEN "ok" ELSE "delete", d.blobs, cp,
                      IF d.ok THEN ls \ {srcKey} ELSE ls,
                      Append(entries, Logged("Delete", srcKey, LeaseID(srcKey), d.ok)),
                      defers)
    ELSE IF copyStatus = "success"
    THEN Returned("ok", objs, cp, ls, entries, defers)
    ELSE IF copyStatus = "pending"
    THEN LET fetched == Logged("GetProperties", dstKey,
                               PropertiesLease(dstKey, srcKey), ans.props # "error")
             \* the store has finished or given up the copy by the fetch
             objs1   == IF ans.props = "success" /\ CopyPending(cp, dstKey)
                        THEN Put(objs, dstKey, Blob(cp[dstKey], objs[dstKey].meta))
                        ELSE objs
             cp1     == IF ans.props \in {"success", "failed"}
                        THEN Drop(cp, {dstKey}) ELSE cp
             renewD  == Logged("RenewLease", dstKey, LeaseID(dstKey), ans.renewDst)
             renewS  == Logged("RenewLease", srcKey, LeaseID(srcKey), ans.renewSrc)
         IN  IF ans.props = "error"
             THEN Returned("getProperties", objs, cp, ls, Append(entries, fetched), defers)
             ELSE IF ~ans.renewDst
             THEN Returned("renewDst", objs1, cp1, ls,
                           entries \o << fetched, renewD >>, defers)
             ELSE IF ~ans.renewSrc
             THEN Returned("renewSrc", objs1, cp1, ls,
                           entries \o << fetched, renewD, renewS >>, defers)
             ELSE Returned(AfterRenew(ans.props), objs1, cp1, ls,
                           entries \o << fetched, renewD, renewS >>, defers)
    ELSE Returned("copyStatus", objs, cp, ls, entries, defers)

\* the first lease taken on the source's key
DstBlobKeyOfSource(root, src, dst) == Join(<< root, src >>)

\* dstBlobUrl, the blob of the first lease
DstBlobKey(root, src, dst) == Join(<< root, dst >>)

\* srcBlobUrl, the blob of the second lease
SrcBlobKey(root, src, dst) == Join(<< root, src >>)

\* internalCopyOrMoveBlob(src, dst, metadata, move) with the store's answers
CopyOrMove(objs, cp, ls, root, src, dst, metadata, move, ans) ==
    LET dstKey  == DstBlobKey(root, src, dst)
        gotDst  == AcquireLease(ls, dstKey, ans.dstLease)
        e1      == Logged("AcquireLease", dstKey, NoLease, gotDst)
        ls1     == ls \cup {dstKey}
        defers1 == DeferBreak(dstKey)
        srcKey  == SrcBlobKey(root, src, dst)
        gotSrc  == AcquireLease(ls1, srcKey, ans.srcLease)
        e2      == Logged("AcquireLease", srcKey, NoLease, gotSrc)
        ls2     == ls1 \cup {srcKey}
        defers2 == defers1 \o DeferBreak(srcKey)
        started == /\ ans.start # "error"
                   /\ Exists(objs, srcKey)
                   /\ ~Refused(cp, ls2, dstKey, LeaseID(dstKey), TRUE)
        e3      == Logged("StartCopyFromURL", dstKey, LeaseID(dstKey), started)
        meta    == CopiedMeta(metadata, objs[srcKey])
        objs3   == IF ans.start = "success"
                   THEN Put(objs, dstKey, Blob(objs[srcKey].content, meta))
                   ELSE Put(objs, dstKey, Blob(Partial, meta))
        cp3     == IF ans.start = "success" THEN cp
                   ELSE Put(cp, dstKey, objs[srcKey].content)
    IN  IF ~gotDst THEN Returned("dstLease", objs, cp, ls, << e1 >>, << >>)
        ELSE IF ~gotSrc THEN Returned("srcLease", objs, cp, ls1, << e1, e2 >>, defers1)
        ELSE IF ~started
        THEN Returned("startCopy", objs, cp, ls2, << e1, e2, e3 >>, defers2)
        ELSE StatusLoop(ans.start, objs3, cp3, ls2, dstKey, srcKey, move, ans,
                        << e1, e2, e3 >>, defers2)

\* the copy statuses the call read, in order: the one StartCopyFromURL
\* returned and the one of each properties fetch that went through
SeenStatuses(ans, entries) ==
    IF ~ \E i \in 1..Len(entries) : entries[i].call = "StartCopyFromURL" /\ entries[i].ok
    THEN << >>
    ELSE IF \E i \in 1..Len(entries) : entries[i].call = "GetProperties" /\ entries[i].ok
    THEN << ans.start, ans.props >>
    ELSE << ans.start >>

\* a facade call that is one internalCopyOrMoveBlob
CopyCall(op, src, dst, metadata, move) ==
    /\ Ready
    /\ \E ans \in Answers :
         LET r == CopyOrMove(blobs, copies, leases, prefix, src, dst, metadata, move, ans)
         IN  /\ blobs' = r.blobs
             /\ copies' = r.copies
             /\ leases' = r.leases
             /\ log' = r.log
             /\ last' = Call(op, src, dst, r.res, 0,
                             { r.log[i].key : i \in 1..Len(r.log) },
                             SeenStatuses(ans, r.log))
    /\ UNCHANGED << calls, prefix, pathCache, dead >>

\* a rename that copies and leaves the source
RenameFileCopies ==
    \E oldName \in RelPaths, newName \in RelPaths :
        CopyCall("RenameFile", oldName, newName, NilMetadata, FALSE)

RenameFileAct ==
    \E oldName \in RelPaths, newName \in RelPaths :
        CopyCall("RenameFile", oldName, newName, NilMetadata, TRUE)

SymLinkAct ==
    \E src \in RelPaths, dst \in RelPaths :
        CopyCall("SymLink", src, dst, Metadata(SymLinkMeta(src)), FALSE)

\* HardLink(src, dst) is SymLink(src, dst)
HardLinkAct ==
    \E src \in RelPaths, dst \in RelPaths :
        CopyCall("SymLink", src, dst, Metadata(SymLinkMeta(src)), FALSE)

\* the store finishes a pending copy: the destination gets the content the
\* source had when the copy started
CopyFinishes ==
    /\ \E key \in DOMAIN copies :
         /\ blobs' = Put(blobs, key, Blob(copies[key], blobs[key].meta))
         /\ copies' = Drop(copies, {key})
    /\ UNCHANGED << calls, prefix, pathCache, leases, log, last, dead >>

\* the store gives a pending copy up
CopyFails ==
    /\ \E key \in DOMAIN copies : copies' = Drop(copies, {key})
    /\ UNCHANGED << calls, prefix, pathCache, blobs, leases, log, last, dead >>

\* the caller has taken the result of its last call
Taken == last.op = "none"

\* the caller takes the result of the call it made
Take ==
    /\ ~Taken
    /\ last' = NoCall
    /\ log' = << >>
    /\ UNCHANGED << calls, prefix, pathCache, blobs, leases, copies, dead >>

NextCopy ==
    \/ Taken /\ PutFileAct
    \/ Taken /\ RemoveAct
    \/ Taken /\ RenameFileAct
    \/ Taken /\ SymLinkAct
    \/ Taken /\ HardLinkAct
    \/ Take
    \/ CopyFinishes
    \/ CopyFails

\* an instance constructed on a container that is still empty
InitCopy == Init /\ blobs = << >>

\* PutFile, Remove and the copy/move calls of a caller that makes a call,
\* takes its result and makes the next, with the store's copies going on
SpecCopy == InitCopy /\ [][NextCopy]_vars

\* ------------------------------------------------------------------------
\* LinkFromPool called by two callers at once, statement by statement
\* ------------------------------------------------------------------------

\* the other caller
Other(c) == CHOOSE o \in Callers : o # c

\* the call is between its entry and its return
Running(call) == call.pc \notin { "idle", "done" }

\* relPath of the call
RelPathOf(call) == Join(<< call.dir, Base(call.src) >>)

\* sourceChecksums.MD5 of the call
SourceMD5Of(call) == SourceMD5(PoolFile(call.src))

\* the call returns res
ReturnOf(call, res) == [call EXCEPT !.pc = "done", !.res = res]

\* lines 129-136: the call is entered with its arguments
LinkEnter(c) ==
    /\ Ready
    /\ calls[c].pc = "idle"
    /\ \E dir \in Dirs, src \in LinkSources, force \in BOOLEAN :
         calls' = [calls EXCEPT
                     ![c] = [IdleCall EXCEPT !.pc = "check", !.dir = dir, !.src = src,
                                             !.force = force,
                                             !.overlapped = Running(calls[Other(c)])],
                     ![Other(c)].overlapped = @ \/ Running(calls[Other(c)])]
    /\ UNCHANGED << prefix, pathCache, blobs, leases, copies, log, last, dead >>

\* line 138: storage.pathCache == nil
LinkCheckNil(c) ==
    /\ Ready
    /\ calls[c].pc = "check"
    /\ calls' = [calls EXCEPT ![c].isNil = pathCache.nil,
                              ![c].pc = IF pathCache.nil THEN "fill" ELSE "lookup"]
    /\ UNCHANGED << prefix, pathCache, blobs, leases, copies, log, last, dead >>

\* lines 139-149 once the listing returned fl: the error, or the new map
LinkFilled(c, fl) ==
    /\ dead' = (fl.err = "panic")
    /\ pathCache' = IF fl.err = "none" THEN MadeCache(CacheOf(fl.paths, fl.md5s))
                    ELSE pathCache
    /\ calls' = [calls EXCEPT ![c] = IF fl.err = "none" THEN [@ EXCEPT !.pc = "lookup"]
                                     ELSE IF fl.err = "list" THEN ReturnOf(@, "error")
                                     ELSE ReturnOf(@, "panic")]

\* lines 139-149: the listing and the population of the cache
LinkFill(c) ==
    /\ Ready
    /\ calls[c].pc = "fill"
    /\ \E size \in 1..MaxPage, failAt \in 0..MaxPage :
         LinkFilled(c, internalFilelist(blobs, prefix, CacheListArg(RelPathOf(calls[c])),
                                        size, failAt))
    /\ UNCHANGED << prefix, blobs, leases, copies, log, last >>

\* line 151: destinationMD5, exists := storage.pathCache[relPath]
LinkLookupStep(c) ==
    /\ Ready
    /\ calls[c].pc = "lookup"
    /\ calls' = [calls EXCEPT
                   ![c].exists = RelPathOf(calls[c]) \in DOMAIN pathCache.m,
                   ![c].destinationMD5 = IF RelPathOf(calls[c]) \in DOMAIN pathCache.m
                                         THEN pathCache.m[RelPathOf(calls[c])] ELSE Empty,
                   ![c].pc = "decide"]
    /\ UNCHANGED << prefix, pathCache, blobs, leases, copies, log, last, dead >>

\* a call that takes the path as absent whatever it read
SeenNothing(call) == << >>

\* what the call read of the cache at line 151, as a map
SeenCache(call) ==
    IF call.exists THEN [k \in { RelPathOf(call) } |-> call.destinationMD5] ELSE << >>

\* the call after the decision of lines 154-162
Decided(call, decision) ==
    IF decision = "hit" THEN ReturnOf(call, "ok")
    ELSE IF decision = "conflict" THEN ReturnOf(call, "conflict")
    ELSE [call EXCEPT !.pc = "write"]

\* lines 154-162: return nil, return the conflict, or go on to the write
LinkDecide(c) ==
    /\ Ready
    /\ calls[c].pc = "decide"
    /\ calls' = [calls EXCEPT
                   ![c] = Decided(@, Decide(SeenCache(@), RelPathOf(@), SourceMD5Of(@),
                                            @.force))]
    /\ UNCHANGED << prefix, pathCache, blobs, leases, copies, log, last, dead >>

\* line 164 once PutFile returned put
LinkWritten(c, put) ==
    /\ blobs' = put.blobs
    /\ calls' = [calls EXCEPT ![c].err = put.err, ![c].puts = put.puts,
                              ![c].pc = "update"]

\* line 164: err := storage.PutFile(relPath, sourcePath)
LinkWrite(c) ==
    /\ Ready
    /\ calls[c].pc = "write"
    /\ \E ok \in BOOLEAN :
         LinkWritten(c, PutFile(blobs, copies, leases, prefix, RelPathOf(calls[c]),
                                calls[c].src, ok))
    /\ UNCHANGED << prefix, pathCache, leases, copies, log, last, dead >>

\* lines 165-169: the cache entry is set when err is nil, and err returned
LinkUpdate(c) ==
    /\ Ready
    /\ calls[c].pc = "update"
    /\ pathCache' = MadeCache(CacheAfterPut(pathCache.m, RelPathOf(calls[c]),
                                            SourceMD5Of(calls[c]), calls[c].err))
    /\ calls' = [calls EXCEPT
                   ![c] = ReturnOf(@, IF @.err = "none" THEN "ok" ELSE "error")]
    /\ UNCHANGED << prefix, blobs, leases, copies, log, last, dead >>

\* the statement the call is at reads the map of the cache
ReadsMap(call) == call.pc = "lookup"

\* the statement the call is at writes the map of the cache
WritesMap(call) == call.pc \in { "fill", "update" }

\* the run time finds the map of the cache written by one caller while the
\* other reads or writes it, and ends the process
LinkRace ==
    /\ Ready
    /\ \E c \in Callers :
         /\ WritesMap(calls[c])
         /\ WritesMap(calls[Other(c)]) \/ ReadsMap(calls[Other(c)])
    /\ dead' = TRUE
    /\ UNCHANGED << calls, prefix, pathCache, blobs, leases, copies, log, last >>

NextLink ==
    \/ \E c \in Callers : LinkEnter(c)
    \/ \E c \in Callers : LinkCheckNil(c)
    \/ \E c \in Callers : LinkFill(c)
    \/ \E c \in Callers : LinkLookupStep(c)
    \/ \E c \in Callers : LinkDecide(c)
    \/ \E c \in Callers : LinkWrite(c)
    \/ \E c \in Callers : LinkUpdate(c)
    \/ LinkRace

\* two callers that each call LinkFromPool once on the one instance, with
\* no lock between them
SpecLink == Init /\ [][NextLink]_vars

\* ------------------------------------------------------------------------
\* Properties
\* ------------------------------------------------------------------------

\* key lies under the root prefix
UnderRoot(root, key) ==
    root = Empty \/ key = root \/ HasPrefix(key, root \o << Slash >>)

\* key lies under the directory dir of the instance
UnderDir(root, dir, key) ==
    LET joined == Join(<< root, dir >>)
    IN  joined = Empty \/ HasPrefix(key, joined \o << Slash >>)

\* the destination key of LinkFromPool(dir, ..., src, ...)
LinkDest(root, dir, src) == Join(<< root, Join(<< dir, Base(src) >>) >>)

\* the checksum of the blob at key, as a listing reports it
StoredMD5(objs, key) == Hex(Digest(objs[key].content))

\* the step is a LinkFromPool call whose destination holds a blob with a
\* checksum other than the source's
LinkOntoDifferent ==
    /\ last'.op = "LinkFromPool"
    /\ Exists(blobs, LinkDest(prefix, last'.a1, last'.a2))
    /\ StoredMD5(blobs, LinkDest(prefix, last'.a1, last'.a2))
         # SourceMD5(PoolFile(last'.a2))

\* C1: a LinkFromPool with force=false onto a destination that holds a blob
\* with another checksum does not return success and leaves the blobs as
\* they were (a store call that fails stops the call as well)
C1_ConflictLeavesDestination ==
    [][ (LinkOntoDifferent /\ last'.out = << FALSE >>)
        => (last'.res # "ok" /\ blobs' = blobs) ]_vars

\* the step is a successful LinkFromPool that follows a successful
\* LinkFromPool with the same directory and the same source
LinkRepeated ==
    /\ last.op = "LinkFromPool" /\ last.res = "ok"
    /\ last'.op = "LinkFromPool" /\ last'.res = "ok"
    /\ last'.a1 = last.a1 /\ last'.a2 = last.a2

\* C2 as stated: two successive successful LinkFromPool calls with the same
\* destination and checksum issue exactly one put between them, and the
\* second changes neither the blobs nor the cache
C2_ExactlyOnePut ==
    [][ LinkRepeated
        => (last.puts + last'.puts = 1 /\ last'.puts = 0
            /\ blobs' = blobs /\ pathCache' = pathCache) ]_vars

\* C2 as amended: of two successive successful LinkFromPool calls with the
\* same destination and checksum the second issues no put and changes
\* neither the blobs nor the cache, so the two issue at most one put
C2_SecondLinkNoWrite ==
    [][ LinkRepeated
        => (last.puts + last'.puts <= 1 /\ last'.puts = 0
            /\ blobs' = blobs /\ pathCache' = pathCache) ]_vars

\* a successful LinkFromPool found its checksum in the cache and wrote nothing
C2_Witness ==
    /\ last.op = "LinkFromPool" /\ last.res = "ok" /\ last.puts = 0
    /\ ~pathCache.nil
    /\ Join(<< last.a1, Base(last.a2) >>) \in DOMAIN pathCache.m

\* C3: every key the last call read, wrote, listed or deleted lies under
\* the root prefix of the instance
C3_PrefixIsolation == \A key \in last.touched : UnderRoot(prefix, key)

\* the list Filelist(dir) is to return: the keys under the directory in
\* lexical order, each without the directory's prefix
ExpectedList(objs, root, dir) ==
    LET joined == Join(<< root, dir >>)
        abs    == IF joined = Empty THEN Empty ELSE joined \o << Slash >>
        under  == SortKeys({ k \in DOMAIN objs : HasPrefix(k, abs) })
    IN  [i \in 1..Len(under) |-> SliceFrom(under[i], Len(abs))]

\* C4: a Filelist whose listing requests all went through returns exactly
\* the blobs under the joined prefix, at every depth, in lexical order, with
\* the prefix removed
C4_FilelistExact ==
    (last.op = "Filelist" /\ last.res # "error")
    => (last.res = "ok" /\ last.out = ExpectedList(blobs, prefix, last.a1))

\* C7: a LinkFromPool with force=true onto a destination that holds a blob
\* with another checksum, unless a store call fails, returns success, leaves
\* the source's content at the destination and the source's checksum in the
\* cache, so that the same call again finds its checksum there
C7_ForcedOverwrite ==
    [][ (LinkOntoDifferent /\ last'.out = << TRUE >>
         /\ last'.res \notin {"error", "panic"})
        => (/\ last'.res = "ok"
            /\ Exists(blobs', LinkDest(prefix, last'.a1, last'.a2))
            /\ blobs'[LinkDest(prefix, last'.a1, last'.a2)].content = PoolFile(last'.a2)
            /\ Decide(pathCache'.m, Join(<< last'.a1, Base(last'.a2) >>),
                      SourceMD5(PoolFile(last'.a2)), FALSE) = "hit") ]_vars

\* C8: after a RemoveDirs that returned success, with its listing and its
\* deletes gone through, no blob is left under the directory, and every
\* blob outside it is there as it was
C8_RemoveDirsExact ==
    [][ (/\ last'.op = "RemoveDirs" /\ last'.res = "ok"
         /\ last'.out = << "none", FALSE >>)
        => (/\ \A k \in DOMAIN blobs' : ~UnderDir(prefix, last'.a1, k)
            /\ \A k \in DOMAIN blobs :
                 ~UnderDir(prefix, last'.a1, k)
                 => (Exists(blobs', k) /\ blobs'[k] = blobs[k])) ]_vars

\* C9: when Remove(p) succeeds right after PutFile(p, f) succeeded,
\* FileExists(p) is (false, nil)
C9_RemoveDeletesPut ==
    [][ (/\ last.op = "PutFile" /\ last.res = "ok"
         /\ last'.op = "Remove" /\ last'.res = "ok"
         /\ last'.a1 = last.a1)
        => (/\ ~FileExists(blobs', prefix, last'.a1).exists
            /\ FileExists(blobs', prefix, last'.a1).err = "none") ]_vars

\* C5: when internalCopyOrMoveBlob has returned, every lease it acquired
\* has had its BreakLease issued after the acquisition, on every exit path
C5_LeasesReleased ==
    \A i \in 1..Len(log) :
        (log[i].call = "AcquireLease" /\ log[i].ok)
        => \E j \in (i + 1)..Len(log) :
               log[j].call = "BreakLease" /\ log[j].key = log[i].key

\* a call gave up with both leases acquired and its copy still pending
C5_Witness ==
    /\ last.res = "copyStatus"
    /\ DOMAIN copies # {}
    /\ Cardinality({ i \in 1..Len(log) : log[i].call = "AcquireLease" /\ log[i].ok }) = 2

\* C6: when RenameFile(old, new) returns success, the blob at new has the
\* content the blob at old had when the call started, and FileExists(old)
\* is false
C6_RenameMoves ==
    [][ (last.op = "none" /\ last'.op = "RenameFile" /\ last'.res = "ok")
        => (/\ Exists(blobs, Join(<< prefix, last'.a1 >>))
            /\ Exists(blobs', Join(<< prefix, last'.a2 >>))
            /\ blobs'[Join(<< prefix, last'.a2 >>)].content
                 = blobs[Join(<< prefix, last'.a1 >>)].content
            /\ ~FileExists(blobs', prefix, last'.a1).exists) ]_vars

\* a RenameFile on an instance with a root prefix returned success
C6_Witness ==
    /\ last.op = "RenameFile" /\ last.res = "ok"
    /\ prefix # Empty
    /\ Exists(blobs, Join(<< prefix, last.a2 >>))
    /\ ~Exists(blobs, Join(<< prefix, last.a1 >>))

\* C10: when SymLink(src, dst) returns success, ReadLink(dst) is src as it
\* was passed, the blob at dst has the content the blob at src had, and the
\* blob at src is there as it was
C10_SymLinkRoundTrip ==
    [][ (last.op = "none" /\ last'.op = "SymLink" /\ last'.res = "ok")
        => (/\ ReadLink(blobs', prefix, last'.a2).err = "none"
            /\ ReadLink(blobs', prefix, last'.a2).link = last'.a1
            /\ Exists(blobs, Join(<< prefix, last'.a1 >>))
            /\ blobs'[Join(<< prefix, last'.a2 >>)].content
                 = blobs[Join(<< prefix, last'.a1 >>)].content
            /\ Exists(blobs', Join(<< prefix, last'.a1 >>))
            /\ blobs'[Join(<< prefix, last'.a1 >>)]
                 = blobs[Join(<< prefix, last'.a1 >>)]) ]_vars

\* a SymLink returned success and the link reads back
C10_Witness ==
    /\ last.op = "SymLink" /\ last.res = "ok"
    /\ ReadLink(blobs, prefix, last.a2).link = last.a1
    /\ Exists(blobs, Join(<< prefix, last.a1 >>))

\* the last call was a copy/move call whose renewals all went through
RenewalsWent ==
    /\ last.op \in {"RenameFile", "SymLink"}
    /\ \A i \in 1..Len(log) : log[i].call = "RenewLease" => log[i].ok

\* C11: a copy/move call that read pending and then success from a poll,
\* with no properties or renewal error, returns success, and a RenameFile
\* has then deleted its source
C11_PendingThenSuccess ==
    (RenewalsWent /\ last.out = << "pending", "success" >>)
    => (/\ last.res = "ok"
        /\ last.op = "RenameFile" => ~Exists(blobs, Join(<< prefix, last.a1 >>)))

\* the step of a copy/move call
CopyStep == last.op = "none" /\ last'.op \in {"RenameFile", "SymLink"}

\* C12: a copy/move call issues a delete only as RenameFile, only on its
\* source and only after it read the copy status success; a call that
\* returns another error than the delete's has issued no delete, and a call
\* that issued none leaves the source as it was
C12_DeleteOnlyAfterSuccess ==
    [][ CopyStep
        => (/\ \A i \in 1..Len(log') :
                 log'[i].call = "Delete"
                 => (/\ last'.op = "RenameFile"
                     /\ log'[i].key = Join(<< prefix, last'.a1 >>)
                     /\ last'.out # << >>
                     /\ last'.out[Len(last'.out)] = "success"
                     /\ \E j \in 1..(i - 1) : log'[j].call = "StartCopyFromURL" /\ log'[j].ok)
            /\ last'.res \notin {"ok", "delete"}
                 => ~ \E i \in 1..Len(log') : log'[i].call = "Delete"
            /\ (/\ ~ \E i \in 1..Len(log') : log'[i].call = "Delete"
                /\ Exists(blobs, Join(<< prefix, last'.a1 >>)))
                 => (/\ Exists(blobs', Join(<< prefix, last'.a1 >>))
                     /\ blobs'[Join(<< prefix, last'.a1 >>)]
                          = blobs[Join(<< prefix, last'.a1 >>)]) ) ]_vars

\* a RenameFile whose copy started as pending has returned, with its
\* source still there
C12_Witness ==
    /\ last.op = "RenameFile"
    /\ last.out # << >> /\ last.out[1] = "pending"
    /\ Exists(blobs, Join(<< prefix, last.a1 >>))

\* the cache key of the blob at key: its path relative to the root prefix
CacheKey(root, key) ==
    IF root = Empty THEN key ELSE SliceFrom(key, Len(root) + 1)

\* the step is the LinkFromPool call that populates the path cache
LinkPopulates ==
    last'.op = "LinkFromPool" /\ pathCache.nil /\ ~pathCache'.nil

\* C13: when a LinkFromPool call has populated the cache, every blob that
\* was under the directory of relPath has its entry, keyed by its path
\* relative to the root prefix and holding its checksum, and a blob already
\* at relPath with the source's checksum makes the call a hit
C13_PopulationComplete ==
    [][ LinkPopulates
        => (/\ \A key \in DOMAIN blobs :
                 UnderDir(prefix, last'.a1, key)
                 => (/\ CacheKey(prefix, key) \in DOMAIN pathCache'.m
                     /\ pathCache'.m[CacheKey(prefix, key)] = StoredMD5(blobs', key))
            /\ (/\ Exists(blobs, LinkDest(prefix, last'.a1, last'.a2))
                /\ StoredMD5(blobs, LinkDest(prefix, last'.a1, last'.a2))
                     = SourceMD5(PoolFile(last'.a2)))
                 => last'.puts = 0) ]_vars

\* the entry of k is one the step put into the cache or changed
EntryWritten(k) ==
    \/ pathCache.nil
    \/ k \notin DOMAIN pathCache.m
    \/ pathCache.m[k] # pathCache'.m[k]

\* objs holds a blob at the key of cache entry k, with checksum c
EntryBacked(objs, root, k, c) ==
    /\ Exists(objs, Join(<< root, k >>))
    /\ StoredMD5(objs, Join(<< root, k >>)) = c

\* C14: every entry a LinkFromPool call puts into the cache or changes, by
\* the population or after its write, is the checksum of a blob that was in
\* the store at the root prefix joined with the entry's key, when the call
\* listed or when it had written
C14_CacheSound ==
    [][ (last'.op = "LinkFromPool" /\ ~pathCache'.nil)
        => \A k \in DOMAIN pathCache'.m :
             EntryWritten(k)
             => (\/ EntryBacked(blobs, prefix, k, pathCache'.m[k])
                 \/ EntryBacked(blobs', prefix, k, pathCache'.m[k])) ]_vars

\* C15: when LinkFromPool has returned success without a write, the store
\* holds a blob at the destination key and its checksum is the source's
C15_HitMeansStored ==
    (last.op = "LinkFromPool" /\ last.res = "ok" /\ last.puts = 0)
    => (/\ Exists(blobs, LinkDest(prefix, last.a1, last.a2))
        /\ StoredMD5(blobs, LinkDest(prefix, last.a1, last.a2))
             = SourceMD5(PoolFile(last.a2)))

\* relPath of LinkFromPool(dir, ..., src, ...)
LinkRel(dir, src) == Join(<< dir, Base(src) >>)

\* the step is a LinkFromPool call whose PutFile failed
LinkPutFailed ==
    last'.op = "LinkFromPool" /\ last'.puts = 1 /\ last'.res # "ok"

\* the cache as the population of a LinkFromPool call for relPath makes it
Populated(objs, root, relPath) ==
    CacheOf(internalFilelist(objs, root, CacheListArg(relPath), 1, 0).paths,
            internalFilelist(objs, root, CacheListArg(relPath), 1, 0).md5s)

\* the step is a LinkFromPool call that set the entry of its relPath to the
\* source's checksum
LinkSetsEntry ==
    /\ last'.op = "LinkFromPool" /\ ~pathCache'.nil
    /\ LinkRel(last'.a1, last'.a2) \in DOMAIN pathCache'.m
    /\ pathCache'.m[LinkRel(last'.a1, last'.a2)] = SourceMD5(PoolFile(last'.a2))
    /\ \/ LinkRel(last'.a1, last'.a2) \notin DOMAIN pathCache.m
       \/ pathCache.m[LinkRel(last'.a1, last'.a2)] # SourceMD5(PoolFile(last'.a2))

\* C16 as stated: the entry of relPath is set to the source's checksum only
\* by a call whose put returned success, and a call whose put failed
\* returns the error and leaves the path cache exactly as it was before the
\* call
C16_FailedPutKeepsCache ==
    [][ /\ (LinkSetsEntry /\ ~pathCache.nil) => (last'.puts = 1 /\ last'.res = "ok")
        /\ LinkPutFailed => (last'.res = "error" /\ pathCache' = pathCache) ]_vars

\* C16 amended: the entry of relPath is set only by a call whose put
\* returned success; a call whose put failed returns the error, and the
\* cache is then what it was before the put: unchanged when it was there
\* before the call, and what the population made it when it was nil
C16_FailedPutKeepsPopulated ==
    [][ /\ (LinkSetsEntry /\ ~pathCache.nil) => (last'.puts = 1 /\ last'.res = "ok")
        /\ LinkPutFailed
             => (/\ last'.res = "error"
                 /\ ~pathCache.nil => pathCache' = pathCache
                 /\ pathCache.nil
                      => pathCache' = MadeCache(Populated(blobs, prefix,
                                                          LinkRel(last'.a1, last'.a2)))) ]_vars

\* a LinkFromPool call on a cache that holds entries has had its put fail
C16_Witness ==
    /\ last.op = "LinkFromPool" /\ last.puts = 1 /\ last.res = "error"
    /\ ~pathCache.nil /\ DOMAIN pathCache.m # {}
    /\ LinkRel(last.a1, last.a2) \notin DOMAIN pathCache.m

\* C17: a RemoveDirs whose listing went through and one of whose deletes
\* failed returns an error
C17_DeleteErrorReturned ==
    (last.op = "RemoveDirs" /\ last.out = << "none", TRUE >>) => last.res = "error"

\* C20: a RemoveDirs whose listing failed returns success, has issued no
\* delete and leaves the store as it was
C20_ListErrorSwallowed ==
    [][ (last'.op = "RemoveDirs" /\ last'.out[1] = "list")
        => (/\ last'.res = "ok"
            /\ last'.touched = {}
            /\ blobs' = blobs) ]_vars

\* a RemoveDirs on a store that holds blobs has had its listing fail
C20_Witness ==
    /\ last.op = "RemoveDirs" /\ last.out[1] = "list"
    /\ last.res = "ok"
    /\ DOMAIN blobs # {}

\* C18: a copy/move call asks for the lease on the destination first and
\* for the lease on the source second and only when it got the first; when
\* the first is refused it returns the destination-lease error after that
\* one store call, with nothing changed; when the second is refused it
\* returns the source-lease error with no copy started and no blob changed,
\* having issued the break of the destination lease
C18_LeaseOrder ==
    [][ CopyStep
        => (/\ Len(log') >= 1
            /\ log'[1].call = "AcquireLease"
            /\ log'[1].key = Join(<< prefix, last'.a2 >>)
            /\ \A i \in 2..Len(log') :
                 log'[i].call = "AcquireLease"
                 => (i = 2 /\ log'[1].ok /\ log'[i].key = Join(<< prefix, last'.a1 >>))
            /\ last'.res = "dstLease" <=> ~log'[1].ok
            /\ ~log'[1].ok
                 => (/\ Len(log') = 1
                     /\ blobs' = blobs /\ copies' = copies /\ leases' = leases)
            /\ log'[1].ok
                 => (/\ Len(log') >= 2 /\ log'[2].call = "AcquireLease"
                     /\ last'.res = "srcLease" <=> ~log'[2].ok
                     /\ ~log'[2].ok
                          => (/\ Len(log') = 3
                              /\ log'[3].call = "BreakLease"
                              /\ log'[3].key = Join(<< prefix, last'.a2 >>)
                              /\ blobs' = blobs /\ copies' = copies)) ) ]_vars

\* a copy/move call between two keys was refused the lease on its source
C18_Witness ==
    /\ last.op \in {"RenameFile", "SymLink"}
    /\ last.res = "srcLease"
    /\ last.a1 # last.a2
    /\ Len(log) = 3

\* the prefix internalFilelist cuts off the names listed for dir
AbsPrefix(root, dir) ==
    IF Join(<< root, dir >>) = Empty THEN Empty ELSE Join(<< root, dir >>) \o << Slash >>

\* all the store yields for the request internalFilelist makes, as one page
WholeListing(objs, root, dir) ==
    ListBlobsHierarchySegment(objs, 0, Slash, ListOptionsPrefix(AbsPrefix(root, dir)),
                              Cardinality(DOMAIN objs) + 1).items

\* r is the whole listing, entry by entry in the store's order, each path
\* with the checksum of its blob
WholeReturned(objs, root, dir, r) ==
    /\ Len(r.paths) = Len(WholeListing(objs, root, dir))
    /\ Len(r.md5s) = Len(r.paths)
    /\ \A i \in 1..Len(r.paths) :
         /\ r.paths[i] = SliceFrom(WholeListing(objs, root, dir)[i],
                                   Len(AbsPrefix(root, dir)))
         /\ r.md5s[i] = StoredMD5(objs, WholeListing(objs, root, dir)[i])

\* r is what internalFilelist is to return for the listing in segments of
\* size with the request of segment failAt failing: the whole listing, or
\* the error and no list
PagedRight(objs, root, dir, r) ==
    \/ r.err = "none" /\ WholeReturned(objs, root, dir, r)
    \/ r.err = "list" /\ r.paths = << >> /\ r.md5s = << >>

\* C19: a Filelist call returns the whole listing or an error, and so does
\* internalFilelist for the call's prefix with the listing split into
\* segments of any size and a failure of any request: all segments' entries
\* once and in order, paths and checksums paired, or the error and no list
C19_PagesConcatenated ==
    last.op = "Filelist"
    => (/\ last.res \in {"ok", "error"}
        /\ \A size \in 1..MaxPage, failAt \in 0..MaxPage :
             PagedRight(blobs, prefix, last.a1,
                        internalFilelist(blobs, prefix, last.a1, size, failAt)))

\* the same for the listings none of whose names is shorter than the prefix
PagesConcatenatedUnlessShort ==
    last.op = "Filelist"
    => \A size \in 1..MaxPage, failAt \in 0..MaxPage :
         \/ internalFilelist(blobs, prefix, last.a1, size, failAt).err = "panic"
         \/ PagedRight(blobs, prefix, last.a1,
                       internalFilelist(blobs, prefix, last.a1, size, failAt))


\* ------------------------------------------------------------------------
\* C21: two LinkFromPool calls for one destination
\* ------------------------------------------------------------------------

\* both callers' calls have returned, they were for the same destination
\* with different source checksums, and neither was forced
SameDestinationPair ==
    /\ \A c \in Callers : calls[c].pc = "done" /\ ~calls[c].force
    /\ RelPathOf(calls["A"]) = RelPathOf(calls["B"])
    /\ SourceMD5Of(calls["A"]) # SourceMD5Of(calls["B"])

\* the call uploaded its file and the store took it
Stored(call) == call.puts > 0 /\ call.err = "none"

\* the cache entry of the pair's destination is the checksum of the blob
\* the store holds there
PairEntryBacked ==
    \/ RelPathOf(calls["A"]) \notin DOMAIN pathCache.m
    \/ EntryBacked(blobs, prefix, RelPathOf(calls["A"]),
                   pathCache.m[RelPathOf(calls["A"])])

\* C21: when one of two LinkFromPool calls for the same destination with
\* different source checksums and force=false has returned before the other
\* was entered, at most one of them has written its file to the store and
\* the cache entry of the destination is the checksum of the stored blob
C21_SerializedOneWrite ==
    (SameDestinationPair /\ \A c \in Callers : ~calls[c].overlapped)
        => /\ Cardinality({ c \in Callers : Stored(calls[c]) }) <= 1
           /\ PairEntryBacked

\* two interleaved calls have both read the destination as absent, both
\* have written, and the cache entry is not the checksum of the stored blob
C21_Witness ==
    /\ SameDestinationPair
    /\ \A c \in Callers : calls[c].overlapped /\ ~calls[c].exists /\ Stored(calls[c])
    /\ ~PairEntryBacked

\* one call has returned before the other was entered, and one has written
C21_SerializedWitness ==
    /\ SameDestinationPair
    /\ \A c \in Callers : ~calls[c].overlapped
    /\ \E c \in Callers : Stored(calls[c])


\* ------------------------------------------------------------------------
\* C22: the lease id presented with a store call
\* ------------------------------------------------------------------------

\* C22: every store call the coordinator made with a lease id presented the
\* id of the lease it holds on the key of that call
C22_LeaseOfSameKey ==
    \A i \in 1..Len(log) :
        log[i].lease # NoLease => log[i].lease = LeaseID(log[i].key)


\* ------------------------------------------------------------------------
\* C23: the listing that populates the cache fails
\* ------------------------------------------------------------------------

\* the listing LinkFromPool(dir, src) makes of a nil cache
PopulationListing(dir, src, size, failAt) ==
    internalFilelist(blobs, prefix, CacheListArg(Join(<< dir, Base(src) >>)), size, failAt)

\* LinkFromPool(dir, src) called in this state
LinkNow(dir, src, force, size, failAt, ok) ==
    LinkFromPool(blobs, copies, leases, prefix, pathCache, dir, src, force, size, failAt, ok)

\* r is the error return that wrote nothing and left the cache nil
ErrorAndStillNil(r) ==
    r.res = "error" /\ r.puts = 0 /\ r.blobs = blobs /\ r.cache = NilCache

\* on a nil cache, a call whose listing fails returns the error with no
\* write and the cache nil, and a call whose listing succeeds makes the cache
ListErrorOutcome(dir, src, force, size, failAt, ok) ==
    /\ PopulationListing(dir, src, size, failAt).err = "list"
         => ErrorAndStillNil(LinkNow(dir, src, force, size, failAt, ok))
    /\ PopulationListing(dir, src, size, failAt).err = "none"
         => ~LinkNow(dir, src, force, size, failAt, ok).cache.nil

\* the outcome for every call that can be made while the cache is nil
NilCacheListsAgain ==
    pathCache.nil
        => \A dir \in Dirs, src \in LinkSources, force \in BOOLEAN, ok \in BOOLEAN :
             \A size \in 1..MaxPage, failAt \in 0..MaxPage :
               ListErrorOutcome(dir, src, force, size, failAt, ok)

\* the step is a LinkFromPool call on a nil cache that returns with the
\* cache still nil
LinkLeavesNil ==
    last'.op = "LinkFromPool" /\ pathCache.nil /\ pathCache'.nil /\ ~dead'

\* C23: a LinkFromPool call whose listing for the population fails returns
\* an error, writes nothing to the store and leaves the path cache nil, and
\* whenever the cache is nil, after such a call too, the next LinkFromPool
\* call lists again: it fails the same way when its listing fails and makes
\* the cache when its listing succeeds
C23_ListErrorLeavesNil ==
    /\ []NilCacheListsAgain
    /\ [][ LinkLeavesNil
           => (last'.res = "error" /\ last'.puts = 0 /\ blobs' = blobs) ]_vars

\* a LinkFromPool call on a store that holds blobs has had its listing
\* fail: it returned an error without an upload and the cache is nil
C23_Witness ==
    /\ last.op = "LinkFromPool" /\ last.res = "error" /\ last.puts = 0
    /\ pathCache.nil
    /\ DOMAIN blobs # {}

====
